---- MODULE Spec2Model ----
(***************************************************************************)
(* Research agent of langgraph-rag-test: the ResearchState channels with   *)
(* their reducers, the nodes validate / planning / searching /             *)
(* synthesizing, the router routeAfterValidation and the graph wired by    *)
(* createResearchAgent, driven by runResearch.                             *)
(***************************************************************************)
EXTENDS Integers, Sequences, FiniteSets, TLC

\* ---------------------------------------------------------------- bounds
MaxQueries == 2      \* longest "queries" array in a model reply
MaxHits == 1         \* most raw results in one search response
MaxTime == 1         \* last value of the clock read by Date.now()
MaxReplyLen == 2     \* most segments in a language-model reply
MaxUpdates == 3      \* most partial updates merged one after another
MaxConcQueries == 1  \* longest "queries" array of a plan in concurrent runs
MaxToolCalls == 2    \* most tool calls in one reply of the chat model

\* ------------------------------------------------------------- constants
maxConcurrency == 2  \* runs the evaluation harness keeps in flight

Runs == 1..maxConcurrency

Undefined == "<undefined>"
Questions == {"What is photosynthesis?", "asdfghjkl"}
Queries == {"qa", "qb"}

\* ------------------------------------------------------------ state.ts
\* A raw result of the search provider: any field may be missing or falsy.
RawResults ==
  { [title |-> "T", url |-> "u", content |-> "c", score |-> 9],
    [title |-> "", url |-> "", content |-> "", score |-> 0] }

\* interface SearchResult, as built by searchNode from a raw result:
\* r.title || "No title", r.url || "", r.content || "", r.score || 0.5
\* (scores are in tenths: 5 is 0.5).
formatResult(r) ==
  [title |-> IF r.title = "" THEN "No title" ELSE r.title,
   url |-> r.url,
   content |-> r.content,
   score |-> IF r.score = 0 THEN 5 ELSE r.score]

\* Sequences over S of length at most n.
SeqUpTo(S, n) == UNION {[1..k -> S] : k \in 0..n}

\* A scalar that may be null or undefined is boxed: <<>> without a value,
\* <<v>> with the value v.
Null == <<>>
Box(v) == <<v>>
Unbox(b) == b[1]

\* Mutant of isValidQuestionReducer: (current, update) => update ?? current
isValidQuestionReducerSticky(current, update) ==
  IF update = Null THEN current ELSE Unbox(update)

\* reducer of ResearchState.isValidQuestion: (_, update) => update ?? true
isValidQuestionReducer(current, update) ==
  IF update = Null THEN TRUE ELSE Unbox(update)

\* reducer of ResearchState.plan: (_, update) => update
planReducer(current, update) == update

\* Mutant of searchResultsReducer: the update is put in front.
searchResultsReducerPrepending(current, update) == update \o current

\* Mutant of searchResultsReducer: the update replaces the list.
searchResultsReducerReplacing(current, update) == update

\* reducer of ResearchState.searchResults: [...current, ...update]
searchResultsReducer(current, update) == current \o update

\* reducer of ResearchState.report: (_, update) => update
reportReducer(current, update) == update

\* Mutant of metadataReducer: a plain shallow merge, steps replaced.
metadataReducerShallow(current, update) ==
  [k \in DOMAIN current \cup DOMAIN update |->
     IF k \in DOMAIN update THEN update[k] ELSE current[k]]

\* Mutant of metadataReducer: the update's steps are put in front.
metadataReducerPrepending(current, update) ==
  [k \in DOMAIN current \cup DOMAIN update \cup {"steps"} |->
     IF k = "steps"
       THEN (IF "steps" \in DOMAIN update THEN update.steps ELSE <<>>) \o current.steps
       ELSE IF k \in DOMAIN update THEN update[k] ELSE current[k]]

\* Mutant of metadataReducer: steps: [...current.steps, ...update.steps],
\* which throws on an update without steps.
metadataReducerStrict(current, update) ==
  IF "steps" \in DOMAIN update
    THEN [k \in DOMAIN current \cup DOMAIN update |->
            IF k = "steps" THEN current.steps \o update.steps
            ELSE IF k \in DOMAIN update THEN update[k] ELSE current[k]]
    ELSE [threw |-> "TypeError"]

\* Mutant of metadataReducer: ({...update, steps: [...]}), the keys of
\* current are not carried over.
metadataReducerForgetting(current, update) ==
  [k \in DOMAIN update \cup {"steps"} |->
     IF k = "steps"
       THEN current.steps \o (IF "steps" \in DOMAIN update THEN update.steps ELSE <<>>)
       ELSE update[k]]

\* reducer of ResearchState.metadata:
\* ({...current, ...update, steps: [...current.steps, ...(update.steps || [])]})
\* A key the object does not carry is a key outside the record's domain.
metadataReducer(current, update) ==
  [k \in DOMAIN current \cup DOMAIN update \cup {"steps"} |->
     IF k = "steps"
       THEN current.steps \o (IF "steps" \in DOMAIN update THEN update.steps ELSE <<>>)
       ELSE IF k \in DOMAIN update THEN update[k] ELSE current[k]]

\* Mutant of lastValue: the channel keeps the value it had.
lastValueKeeping(current, update) == current

\* The channel of a field without an explicit reducer keeps the last value.
lastValue(current, update) == update

reducer(field, current, update) ==
  CASE field = "question" -> lastValue(current, update)
    [] field = "isValidQuestion" -> isValidQuestionReducer(current, update)
    [] field = "plan" -> planReducer(current, update)
    [] field = "searchResults" -> searchResultsReducer(current, update)
    [] field = "report" -> reportReducer(current, update)
    [] field = "metadata" -> metadataReducer(current, update)

\* Mutant of applyUpdate: the reducer of isValidQuestion runs on every
\* merge, with undefined when the update does not name the field.
applyUpdateEager(s, update) ==
  [f \in DOMAIN s |->
     IF f \in DOMAIN update THEN reducer(f, s[f], update[f])
     ELSE IF f = "isValidQuestion" THEN isValidQuestionReducer(s[f], Null)
     ELSE s[f]]

\* Merge of a node's partial update: a channel is written only for a key
\* the update carries.
applyUpdate(s, update) ==
  [f \in DOMAIN s |->
     IF f \in DOMAIN update THEN reducer(f, s[f], update[f]) ELSE s[f]]

\* Mutant of defaults: report defaults to the empty text.
defaultsReportEmpty(t) ==
  [question |-> Undefined,
   isValidQuestion |-> TRUE,
   plan |-> Null,
   searchResults |-> <<>>,
   report |-> Box(""),
   metadata |-> [steps |-> <<>>, startTime |-> t]]

\* Channel defaults of ResearchState; plan and report are null.
defaults(t) ==
  [question |-> Undefined,
   isValidQuestion |-> TRUE,
   plan |-> Null,
   searchResults |-> <<>>,
   report |-> Null,
   metadata |-> [steps |-> <<>>, startTime |-> t]]

\* State a run starts from: the defaults with the caller's input written.
createInitialState(input, t) == applyUpdate(defaults(t), input)

\* ------------------------------------------------------------ nodes.ts
\* A parsed plan keeps whatever the reply's JSON object carried: "queries"
\* may be missing, a string, or an array; "reasoning" may be missing.
QueryValues ==
  {[t |-> "undefined", a |-> <<>>], [t |-> "string", a |-> <<>>]}
    \cup {[t |-> "array", a |-> q] : q \in SeqUpTo(Queries, MaxQueries)}

PlanValues == [queries : QueryValues, reasoning : {Undefined, "because"}]

\* A reply of the language model is a sequence of segments: text without
\* braces, a brace-delimited span that is not JSON, or a serialised object.
NoValue == [queries |-> [t |-> "undefined", a |-> <<>>], reasoning |-> Undefined]
Segments ==
  {[k |-> "text", v |-> NoValue], [k |-> "junk", v |-> NoValue]}
    \cup {[k |-> "object", v |-> v] : v \in PlanValues}
Replies == SeqUpTo(Segments, MaxReplyLen)

\* content.match(/\{[\s\S]*\}/): the greedy span from the first "{" to the
\* last "}", as the pair of segment indices it covers; <<>> without a match.
jsonMatch(content) ==
  LET braces == {i \in 1..Len(content) : content[i].k # "text"}
  IN IF braces = {} THEN <<>>
     ELSE <<CHOOSE i \in braces : \A j \in braces : i <= j,
            CHOOSE i \in braces : \A j \in braces : j <= i>>

\* JSON.parse(jsonMatch[0]) succeeds only on a span that is one object.
jsonParses(content, m) == m[1] = m[2] /\ content[m[1]].k = "object"

\* plan.queries.join(", ") in the log line needs an array.
canJoin(plan) == plan.queries.t = "array"

Thrown(msg) == [ok |-> FALSE, error |-> msg, update |-> <<>>]
Returned(update) == [ok |-> TRUE, error |-> "", update |-> update]

RejectionReport == "Unable to process this research question."

\* VALIDATE NODE: the language model's verdict sets isValidQuestion; a
\* rejection may carry an explanatory report.
validateQuestionNode(s, valid, explain) ==
  IF ~valid /\ explain
    THEN Returned([isValidQuestion |-> Box(valid),
                   report |-> Box(RejectionReport),
                   metadata |-> [steps |-> <<"validate">>]])
    ELSE Returned([isValidQuestion |-> Box(valid),
                   metadata |-> [steps |-> <<"validate">>]])

\* PLAN NODE, after the model replied with content.
planNode(s, content) ==
  LET m == jsonMatch(content)
  IN IF m = <<>> THEN Thrown("Failed to parse plan from LLM response")
     ELSE IF ~jsonParses(content, m) THEN Thrown("SyntaxError")
     ELSE LET plan == content[m[1]].v
          IN IF ~canJoin(plan) THEN Thrown("TypeError")
             ELSE Returned([plan |-> plan,
                            metadata |-> [steps |-> <<"plan">>,
                                          startTime |-> s.metadata.startTime]])

\* Mutant of searchGuard: an empty query list passes.
searchGuardPlanOnly(s, apiKey) ==
  IF s.plan = Null THEN "No search queries in plan"
  ELSE IF s.plan.queries.t # "array" THEN "TypeError"
  ELSE IF ~apiKey THEN "TAVILY_API_KEY environment variable is not set"
  ELSE ""

\* SEARCH NODE, the checks before the loop: "" when the loop may start.
searchGuard(s, apiKey) ==
  IF s.plan = Null THEN "No search queries in plan"
  ELSE IF s.plan.queries.t # "array" THEN "TypeError"
  ELSE IF Len(s.plan.queries.a) = 0 THEN "No search queries in plan"
  ELSE IF ~apiKey THEN "TAVILY_API_KEY environment variable is not set"
  ELSE ""

\* What one search request can come back with: a rejection, a response
\* without a results field, or a response with raw results.
SearchOutcomes ==
  {[k |-> "throw", results |-> <<>>], [k |-> "empty", results |-> <<>>]}
    \cup {[k |-> "results", results |-> rs] : rs \in SeqUpTo(RawResults, MaxHits)}

formatResults(rs) == [i \in 1..Len(rs) |-> formatResult(rs[i])]

\* Mutant of pushResults: a failed request drops what was collected.
pushResultsDropping(allResults, outcome) ==
  IF outcome.k = "results" THEN allResults \o formatResults(outcome.results)
  ELSE IF outcome.k = "throw" THEN <<>>
  ELSE allResults

\* Body of the loop for one response: allResults.push(...formattedResults)
\* inside the try, nothing in the catch.
pushResults(allResults, outcome) ==
  IF outcome.k = "results" THEN allResults \o formatResults(outcome.results)
  ELSE allResults

\* Mutant of searchNode: a search without any result is an error.
searchNodeEscalating(s, allResults) ==
  IF allResults = <<>> THEN Thrown("No search results")
  ELSE Returned([searchResults |-> allResults,
                 metadata |-> [steps |-> <<"search">>,
                               startTime |-> s.metadata.startTime]])

\* Mutant of searchNode: the search stamps endTime as well.
searchNodeStamping(s, allResults) ==
  Returned([searchResults |-> allResults,
            metadata |-> [steps |-> <<"search">>,
                          startTime |-> s.metadata.startTime,
                          endTime |-> s.metadata.startTime]])

\* SEARCH NODE, the return after the loop.
searchNode(s, allResults) ==
  Returned([searchResults |-> allResults,
            metadata |-> [steps |-> <<"search">>,
                          startTime |-> s.metadata.startTime]])

NoResultsReport == "Unable to generate report: no search results were found."
Reports == {"report [1]"}

\* Mutant of synthesizeEmpty: the short circuit forgets endTime.
synthesizeEmptyUntimed(s, t) ==
  Returned([report |-> Box(NoResultsReport),
            metadata |-> [steps |-> <<"synthesize">>,
                          startTime |-> s.metadata.startTime]])

\* SYNTHESIZE NODE: the short circuit on no results.
synthesizeEmpty(s, t) ==
  Returned([report |-> Box(NoResultsReport),
            metadata |-> [steps |-> <<"synthesize">>,
                          startTime |-> s.metadata.startTime,
                          endTime |-> t]])

\* Mutant of synthesizeNode: the two timestamps are swapped.
synthesizeNodeSwapped(s, report, t) ==
  Returned([report |-> Box(report),
            metadata |-> [steps |-> <<"synthesize">>,
                          startTime |-> t,
                          endTime |-> s.metadata.startTime]])

\* SYNTHESIZE NODE, after the model replied with report.
synthesizeNode(s, report, t) ==
  Returned([report |-> Box(report),
            metadata |-> [steps |-> <<"synthesize">>,
                          startTime |-> s.metadata.startTime,
                          endTime |-> t]])

\* ------------------------------------------------------------ agent.ts
END == "__end__"

\* Mutant of routeAfterValidation: the verdict is not looked at.
routeIgnoringVerdict(s) == "planning"

routeAfterValidation(s) ==
  IF s.isValidQuestion = FALSE THEN "reject" ELSE "planning"

\* Mutant of conditionalEdges: the mapping has no entry for "reject".
conditionalEdgesNoReject == [planning |-> "planning"]

\* addConditionalEdges("validate", routeAfterValidation, {...})
conditionalEdges == [planning |-> "planning", reject |-> END]

\* Mutant of edges: synthesizing leads back to planning.
edgesRevisiting == [planning |-> "searching", searching |-> "synthesizing", synthesizing |-> "planning"]

\* addEdge(...) for the other nodes
edges == [planning |-> "searching", searching |-> "synthesizing", synthesizing |-> END]

\* Mutant of routerInput: the router sees the state before the update.
routerInputStale(before, after) == before

\* The state a conditional edge hands to its router: the state after the
\* node's update was merged.
routerInput(before, after) == after

\* Label of the branch taken out of node, "" on a fixed edge.
branch(node, before, after) ==
  IF node = "validate" THEN routeAfterValidation(routerInput(before, after))
  ELSE ""

\* Where the run goes after node: the target registered for the router's
\* label, or the node's fixed edge.
NoEdge == "<no edge>"

nextNode(node, label) ==
  IF node = "validate"
    THEN IF label \in DOMAIN conditionalEdges THEN conditionalEdges[label] ELSE NoEdge
    ELSE edges[node]

\* Mutant of graphStep: a throw is swallowed and the run goes on.
graphStepSwallowing(s, node, res) ==
  IF res.ok
    THEN LET merged == applyUpdate(s, res.update)
             label == branch(node, s, merged)
             next == nextNode(node, label)
         IN [state |-> merged, current |-> next,
             status |-> IF next = END THEN "returned" ELSE "running",
             error |-> "", label |-> label]
    ELSE LET next == IF node = "validate" THEN "planning" ELSE edges[node]
         IN [state |-> s, current |-> next,
             status |-> IF next = END THEN "returned" ELSE "running",
             error |-> res.error, label |-> ""]

\* Mutant of graphStep: a node that threw is run again.
graphStepRetrying(s, node, res) ==
  IF res.ok
    THEN LET merged == applyUpdate(s, res.update)
             label == branch(node, s, merged)
             next == nextNode(node, label)
         IN [state |-> merged, current |-> next,
             status |-> IF next = END THEN "returned" ELSE "running",
             error |-> "", label |-> label]
    ELSE [state |-> s, current |-> node, status |-> "running",
          error |-> "", label |-> ""]

\* One step of the compiled graph on the result res of node: a returned
\* update is merged and the edge followed; a throw, of the node or of a
\* branch whose label has no target, rejects invoke() with the state as
\* it was.
graphStep(s, node, res) ==
  IF res.ok
    THEN LET merged == applyUpdate(s, res.update)
             label == branch(node, s, merged)
             next == nextNode(node, label)
         IN IF next = NoEdge
              THEN [state |-> s, current |-> node, status |-> "rejected",
                    error |-> "Branch condition returned unknown destination",
                    label |-> label]
              ELSE [state |-> merged, current |-> next,
                    status |-> IF next = END THEN "returned" ELSE "running",
                    error |-> "", label |-> label]
    ELSE [state |-> s, current |-> node, status |-> "rejected",
          error |-> res.error, label |-> ""]

\* ------------------------------------------------------------- the runs
VARIABLES
  state,          \* state[r]: the ResearchState of run r
  current,        \* current[r]: the node run r is at, END once it returned
  status,         \* status[r]: "idle", "running", "returned" or "rejected"
  error,          \* error[r]: what invoke() rejected with
  frame,          \* frame[r]: searchNode's locals, allResults and the query awaited
  log,            \* log[r]: nodes invoked, model calls, search requests and responses
  input,          \* input[r]: the argument runResearch passed to invoke()
  replay,         \* the last merge of the reducer harness: state before, update
  now,            \* the clock behind Date.now()
  TAVILY_API_KEY  \* whether process.env.TAVILY_API_KEY is set

vars == <<state, current, status, error, frame, log, input, replay, now, TAVILY_API_KEY>>

NoFrame == [allResults |-> <<>>, queryIndex |-> 0]
NoLog == [invoked |-> <<>>, llmCalls |-> <<>>, requests |-> <<>>,
          responses |-> <<>>, routed |-> <<>>]
NoInput == [question |-> Undefined]
NoReplay == [before |-> defaults(0), update |-> <<>>, count |-> 0]

Init ==
  /\ state = [r \in Runs |-> defaults(0)]
  /\ current = [r \in Runs |-> "__start__"]
  /\ status = [r \in Runs |-> "idle"]
  /\ error = [r \in Runs |-> ""]
  /\ frame = [r \in Runs |-> NoFrame]
  /\ log = [r \in Runs |-> NoLog]
  /\ input = [r \in Runs |-> NoInput]
  /\ replay = NoReplay
  /\ now = 0
  /\ TAVILY_API_KEY \in BOOLEAN

Running(r, node) == status[r] = "running" /\ current[r] = node

Invoked(l, node) == [l EXCEPT !.invoked = Append(@, node)]
Called(l, node) == [l EXCEPT !.llmCalls = Append(@, node)]

\* Mutant of writeState: one State instance shared by all runs.
writeStateShared(states, r, s) == [x \in Runs |-> s]

\* Every invocation owns its State instance: a write of run r reaches
\* state[r] only.
writeState(states, r, s) == [states EXCEPT ![r] = s]

\* Mutant of freshState: the state of the earlier invocation is kept and
\* the input merged into it.
freshStateReusing(previous, in, t) == applyUpdate(previous, in)

\* invoke() without a checkpointer starts from the channel defaults,
\* whatever state an earlier invocation ended in.
freshState(previous, in, t) == createInitialState(in, t)

\* The run takes the graph step for the result res of its current node;
\* l is the run's log up to the node's end.
Take(r, res, l) ==
  LET g == graphStep(state[r], current[r], res)
  IN /\ state' = writeState(state, r, g.state)
     /\ current' = [current EXCEPT ![r] = g.current]
     /\ status' = [status EXCEPT ![r] = g.status]
     /\ error' = [error EXCEPT ![r] = g.error]
     /\ log' = [log EXCEPT ![r] =
          IF g.label = "" THEN l ELSE [l EXCEPT !.routed = Append(@, g.label)]]

\* runResearch(question): agent.invoke({question}) on a fresh state.
RunResearch(r) ==
  /\ status[r] # "running"
  /\ \E question \in Questions :
       /\ input' = [input EXCEPT ![r] = [question |-> question]]
       /\ state' = writeState(state, r, freshState(state[r], [question |-> question], now))
  /\ current' = [current EXCEPT ![r] = "validate"]
  /\ status' = [status EXCEPT ![r] = "running"]
  /\ error' = [error EXCEPT ![r] = ""]
  /\ frame' = [frame EXCEPT ![r] = NoFrame]
  /\ log' = [log EXCEPT ![r] = NoLog]
  /\ UNCHANGED <<replay, now, TAVILY_API_KEY>>

\* Node "validate": the model call fails, or its verdict is merged and routed.
Validate(r) ==
  /\ Running(r, "validate")
  /\ \E failed \in BOOLEAN, valid \in BOOLEAN, explain \in BOOLEAN :
       Take(r, IF failed THEN Thrown("model call failed")
               ELSE validateQuestionNode(state[r], valid, explain),
            Called(Invoked(log[r], "validate"), "validate"))
  /\ UNCHANGED <<frame, input, replay, now, TAVILY_API_KEY>>

\* What planNode may come to over all replies of the model: of the state
\* it reads the question, for the prompt, and metadata.startTime, which it
\* passes on; planNodeResults[t] are its results in a state started at t.
planNodeResults ==
  [t \in 0..MaxTime |-> {planNode(defaults(t), content) : content \in Replies}]

\* Node "planning": the model call fails, or its reply is parsed.
Planning(r) ==
  /\ Running(r, "planning")
  /\ \E failed \in BOOLEAN, res \in planNodeResults[state[r].metadata.startTime] :
       Take(r, IF failed THEN Thrown("model call failed") ELSE res,
            Called(Invoked(log[r], "planning"), "planning"))
  /\ UNCHANGED <<frame, input, replay, now, TAVILY_API_KEY>>

\* Mutant of nextQuery: every iteration searches for the first query.
nextQueryFirst(queries, i) == queries[1]

\* for (const query of state.plan.queries): the query of iteration i.
nextQuery(queries, i) == queries[i]

\* Node "searching", up to the first await: the checks, then the request
\* for the first query (a loop over no query returns at once).
Searching(r) ==
  /\ Running(r, "searching")
  /\ frame[r].queryIndex = 0
  /\ LET msg == searchGuard(state[r], TAVILY_API_KEY)
         l == Invoked(log[r], "searching")
     IN IF msg # ""
          THEN /\ Take(r, Thrown(msg), l)
               /\ frame' = frame
          ELSE IF Len(state[r].plan.queries.a) = 0
          THEN /\ Take(r, searchNode(state[r], <<>>), l)
               /\ frame' = frame
          ELSE /\ frame' = [frame EXCEPT ![r] = [allResults |-> <<>>, queryIndex |-> 1]]
               /\ log' = [log EXCEPT ![r] =
                    [l EXCEPT !.requests = Append(@, nextQuery(state[r].plan.queries.a, 1))]]
               /\ UNCHANGED <<state, current, status, error>>
  /\ UNCHANGED <<input, replay, now, TAVILY_API_KEY>>

\* Node "searching", resumed by the outcome of the awaited request: the
\* loop body, then the next request or the node's return.
SearchResponse(r) ==
  /\ Running(r, "searching")
  /\ frame[r].queryIndex > 0
  /\ \E outcome \in SearchOutcomes :
       LET i == frame[r].queryIndex
           queries == state[r].plan.queries.a
           allResults == pushResults(frame[r].allResults, outcome)
           l == [log[r] EXCEPT !.responses = Append(@, outcome)]
       IN IF i < Len(queries)
            THEN /\ frame' = [frame EXCEPT ![r] = [allResults |-> allResults, queryIndex |-> i + 1]]
                 /\ log' = [log EXCEPT ![r] = [l EXCEPT !.requests = Append(@, nextQuery(queries, i + 1))]]
                 /\ UNCHANGED <<state, current, status, error>>
            ELSE /\ frame' = [frame EXCEPT ![r] = [allResults |-> allResults, queryIndex |-> 0]]
                 /\ Take(r, searchNode(state[r], allResults), l)
  /\ UNCHANGED <<input, replay, now, TAVILY_API_KEY>>

\* Node "synthesizing": the fixed report without results, else the model
\* call fails or its reply becomes the report.
Synthesizing(r) ==
  /\ Running(r, "synthesizing")
  /\ IF Len(state[r].searchResults) = 0
       THEN Take(r, synthesizeEmpty(state[r], now), Invoked(log[r], "synthesizing"))
       ELSE \E failed \in BOOLEAN, report \in Reports :
              Take(r, IF failed THEN Thrown("model call failed")
                      ELSE synthesizeNode(state[r], report, now),
                   Called(Invoked(log[r], "synthesizing"), "synthesizing"))
  /\ UNCHANGED <<frame, input, replay, now, TAVILY_API_KEY>>

\* Time passes.
Tick ==
  /\ now < MaxTime
  /\ now' = now + 1
  /\ UNCHANGED <<state, current, status, error, frame, log, input, replay, TAVILY_API_KEY>>

\* One caller: a single run at a time.
Next ==
  \/ RunResearch(1)
  \/ Validate(1)
  \/ Planning(1)
  \/ Searching(1)
  \/ SearchResponse(1)
  \/ Synthesizing(1)
  \/ Tick

Spec == Init /\ [][Next]_vars

\* The steps of the one run, the clock standing still.
NextRun ==
  \/ RunResearch(1)
  \/ Validate(1)
  \/ Planning(1)
  \/ Searching(1)
  \/ SearchResponse(1)
  \/ Synthesizing(1)

\* Every awaited call (model, search) settles: a node that is running
\* takes its next step.
Fairness ==
  /\ WF_vars(Validate(1))
  /\ WF_vars(Planning(1))
  /\ WF_vars(Searching(1))
  /\ WF_vars(SearchResponse(1))
  /\ WF_vars(Synthesizing(1))

FairSpec == Init /\ [][NextRun]_vars /\ Fairness

\* The shape planNode's prompt asks for: a "queries" array of text and a
\* "reasoning" text.
ExpectedShape(plan) ==
  /\ plan.queries.t = "array"
  /\ plan.reasoning # Undefined

\* ------------------------------------------------- concurrent runs
\* evaluate() keeps up to maxConcurrency invocations in flight; their
\* awaits interleave on the one event loop. The search key is set and the
\* clock stands still; the plans looked at are those of the expected
\* shape with at most MaxConcQueries queries, each run searching for a
\* query of its own.
InitConc == Init /\ TAVILY_API_KEY

ownQuery(r) == IF r % 2 = 1 THEN "qa" ELSE "qb"

ConcScope(r) ==
  state[r].plan # Null
    => /\ ExpectedShape(state[r].plan)
       /\ Len(state[r].plan.queries.a) <= MaxConcQueries
       /\ \A i \in 1..Len(state[r].plan.queries.a) :
            state[r].plan.queries.a[i] = ownQuery(r)

NextConc ==
  \E r \in Runs :
    \/ RunResearch(r) /\ ConcScope(r)'
    \/ Validate(r) /\ ConcScope(r)'
    \/ Planning(r) /\ ConcScope(r)'
    \/ Searching(r) /\ ConcScope(r)'
    \/ SearchResponse(r) /\ ConcScope(r)'
    \/ Synthesizing(r) /\ ConcScope(r)'

SpecConc == InitConc /\ [][NextConc]_vars

\* ------------------------------------------- merging partial updates
\* The fields of ResearchState.
Fields == DOMAIN defaults(0)

\* Values a partial update may carry for a field; for metadata, objects
\* with any of the keys steps, startTime, endTime.
UpdateValues(f) ==
  CASE f = "question" -> Questions
    [] f = "isValidQuestion" -> {Null, Box(TRUE), Box(FALSE)}
    [] f = "plan" -> {Null} \cup {p \in PlanValues : p.reasoning # Undefined}
    [] f = "searchResults" -> SeqUpTo({formatResult(x) : x \in RawResults}, MaxHits)
    [] f = "report" -> {Null, Box(NoResultsReport)}
    [] f = "metadata" ->
         {[k \in K |-> CASE k = "steps" -> <<"plan">>
                         [] k = "startTime" -> MaxTime
                         [] k = "endTime" -> MaxTime]
            : K \in SUBSET {"steps", "startTime", "endTime"}}

\* Partial<State>: the update naming no field, and the updates of one field.
PartialUpdates ==
  {<<>>} \cup UNION {{[k \in {f} |-> v] : v \in UpdateValues(f)} : f \in Fields}

\* Every copy of the state is the same fresh state; nothing was merged yet.
InitMerge ==
  /\ \E question \in Questions :
       /\ input = [r \in Runs |-> [question |-> question]]
       /\ state = [r \in Runs |-> createInitialState([question |-> question], 0)]
  /\ replay = [NoReplay EXCEPT !.before = state[1]]
  /\ current = [r \in Runs |-> "__start__"]
  /\ status = [r \in Runs |-> "idle"]
  /\ error = [r \in Runs |-> ""]
  /\ frame = [r \in Runs |-> NoFrame]
  /\ log = [r \in Runs |-> NoLog]
  /\ now = 0
  /\ TAVILY_API_KEY = TRUE

\* A partial update is merged into every copy of the state, as the graph
\* does with what a node returns.
Merge ==
  /\ replay.count < MaxUpdates
  /\ \E update \in PartialUpdates :
       /\ state' = [r \in Runs |-> applyUpdate(state[r], update)]
       /\ replay' = [before |-> state[1], update |-> update, count |-> replay.count + 1]
  /\ UNCHANGED <<current, status, error, frame, log, input, now, TAVILY_API_KEY>>

NextMerge == Merge

SpecMerge == InitMerge /\ [][NextMerge]_vars

\* -------------------------------- retrieval chat graph (utils/graph.ts)
\* The chat agent of utils/ runs on the same executor; its runs are kept in
\* the same variables, state[r] holding the messages of StateAnnotation.
\* Messages: their type, content and number of tool calls.
HumanMessage(content) == [type |-> "human", content |-> content, tool_calls |-> 0]
AIMessage(content, n) == [type |-> "ai", content |-> content, tool_calls |-> n]
ToolMessage(content) == [type |-> "tool", content |-> content, tool_calls |-> 0]

inputs == [messages |-> <<HumanMessage("What does Lilian Weng say about types of reward hacking?")>>]

\* The messages channel: what a node returns is put after the messages held.
messagesReducer(left, right) == left \o right

lastMessage(s) == s.messages[Len(s.messages)]

\* shouldRetrieve: "retrieve" on an AI message with tool calls, else END.
shouldRetrieve(s) ==
  IF lastMessage(s).type = "ai" /\ lastMessage(s).tool_calls > 0 THEN "retrieve" ELSE END

\* The router after gradeDocuments.
routeAfterGrading(s) ==
  IF lastMessage(s).content = "generate" THEN "generate" ELSE "rewrite"

\* Node generateQueryOrRespond: the model's reply with n tool calls.
generateQueryOrRespond(s, n) ==
  Returned([messages |-> <<AIMessage(IF n = 0 THEN "answer" ELSE "", n)>>])

\* Node retrieve (ToolNode): one tool message for each tool call of the
\* last message.
toolNode(s) ==
  Returned([messages |-> [i \in 1..lastMessage(s).tool_calls |-> ToolMessage("docs")]])

\* Node gradeDocuments: the verdict for the grader's binaryScore.
gradeDocuments(s, binaryScore) ==
  Returned([messages |-> <<AIMessage(IF binaryScore = "yes" THEN "generate" ELSE "rewrite", 0)>>])

\* Node rewrite: the model's improved question.
rewrite(s) == Returned([messages |-> <<AIMessage("improved question", 0)>>])

\* Node generate: the model's final answer.
generate(s) == Returned([messages |-> <<AIMessage("final answer", 0)>>])

\* Mutant of chatEdges: retrieve leads to generate, the grading is skipped.
chatEdgesSkippingGrade ==
  [retrieve |-> "generate", generate |-> END, rewrite |-> "generateQueryOrRespond"]

\* addEdge(...) of the chat graph
chatEdges ==
  [retrieve |-> "gradeDocuments", generate |-> END, rewrite |-> "generateQueryOrRespond"]

\* Where a chat run goes after node, on the state s with the node's update.
chatNext(node, s) ==
  CASE node = "generateQueryOrRespond" -> shouldRetrieve(s)
    [] node = "gradeDocuments" -> routeAfterGrading(s)
    [] OTHER -> chatEdges[node]

\* Supersteps invoke()/stream() run before they give up: no recursionLimit
\* is passed, the executor's default applies.
recursionLimit == 25

\* One step of the chat graph on the result res of node, the run's
\* step-th: the update is merged and the edge followed, unless the run is
\* out of steps; a throw rejects the run.
chatStep(s, node, res, step) ==
  IF res.ok
    THEN LET merged == [messages |-> messagesReducer(s.messages, res.update.messages)]
             next == chatNext(node, merged)
         IN IF next # END /\ step >= recursionLimit
              THEN [state |-> merged, current |-> next, status |-> "rejected",
                    error |-> "GraphRecursionError"]
              ELSE [state |-> merged, current |-> next,
                    status |-> IF next = END THEN "returned" ELSE "running",
                    error |-> ""]
    ELSE [state |-> s, current |-> node, status |-> "rejected", error |-> res.error]

InitChat ==
  /\ state = [r \in Runs |-> [messages |-> <<>>]]
  /\ current = [r \in Runs |-> "__start__"]
  /\ status = [r \in Runs |-> "idle"]
  /\ error = [r \in Runs |-> ""]
  /\ frame = [r \in Runs |-> NoFrame]
  /\ log = [r \in Runs |-> NoLog]
  /\ input = [r \in Runs |-> NoInput]
  /\ replay = NoReplay
  /\ now = 0
  /\ TAVILY_API_KEY = TRUE

\* The chat run takes the graph step for the result res of its node.
TakeChat(r, res) ==
  LET l == Invoked(log[r], current[r])
      g == chatStep(state[r], current[r], res, Len(l.invoked))
  IN /\ state' = writeState(state, r, g.state)
     /\ current' = [current EXCEPT ![r] = g.current]
     /\ status' = [status EXCEPT ![r] = g.status]
     /\ error' = [error EXCEPT ![r] = g.error]
     /\ log' = [log EXCEPT ![r] = l]
     /\ UNCHANGED <<frame, input, replay, now, TAVILY_API_KEY>>

\* graph.stream(inputs)
StreamChat(r) ==
  /\ status[r] = "idle"
  /\ state' = writeState(state, r, inputs)
  /\ current' = [current EXCEPT ![r] = "generateQueryOrRespond"]
  /\ status' = [status EXCEPT ![r] = "running"]
  /\ UNCHANGED <<error, frame, log, input, replay, now, TAVILY_API_KEY>>

GenerateQueryOrRespond(r) ==
  /\ Running(r, "generateQueryOrRespond")
  /\ \E failed \in BOOLEAN, n \in 0..MaxToolCalls :
       TakeChat(r, IF failed THEN Thrown("model call failed")
                   ELSE generateQueryOrRespond(state[r], n))

Retrieve(r) ==
  /\ Running(r, "retrieve")
  /\ TakeChat(r, toolNode(state[r]))

GradeDocuments(r) ==
  /\ Running(r, "gradeDocuments")
  /\ \E failed \in BOOLEAN, binaryScore \in {"yes", "no", "unsure"} :
       TakeChat(r, IF failed THEN Thrown("model call failed")
                   ELSE gradeDocuments(state[r], binaryScore))

Rewrite(r) ==
  /\ Running(r, "rewrite")
  /\ \E failed \in BOOLEAN :
       TakeChat(r, IF failed THEN Thrown("model call failed") ELSE rewrite(state[r]))

Generate(r) ==
  /\ Running(r, "generate")
  /\ \E failed \in BOOLEAN :
       TakeChat(r, IF failed THEN Thrown("model call failed") ELSE generate(state[r]))

NextChat ==
  \/ StreamChat(1)
  \/ GenerateQueryOrRespond(1)
  \/ Retrieve(1)
  \/ GradeDocuments(1)
  \/ Rewrite(1)
  \/ Generate(1)

\* Every awaited call of a chat node settles.
ChatFairness ==
  /\ WF_vars(GenerateQueryOrRespond(1))
  /\ WF_vars(Retrieve(1))
  /\ WF_vars(GradeDocuments(1))
  /\ WF_vars(Rewrite(1))
  /\ WF_vars(Generate(1))

SpecChat == InitChat /\ [][NextChat]_vars /\ ChatFairness

\* ------------------------------------------------------------ properties
Steps(r) == state[r].metadata.steps
HasEndTime(r) == "endTime" \in DOMAIN state[r].metadata
Started(r) == status[r] # "idle"
Occurs(x, seq) == \E i \in 1..Len(seq) : seq[i] = x
QueriesOf(r) == state[r].plan.queries.a

\* C1: a run that returns with the question accepted (so no node threw)
\* has metadata.steps = ["validate", "plan", "search", "synthesize"].
C1_FullRunSteps ==
  \A r \in Runs :
    (status[r] = "returned" /\ state[r].isValidQuestion)
      => Steps(r) = <<"validate", "plan", "search", "synthesize">>

C1_Witness ==
  \E r \in Runs :
    /\ status[r] = "returned"
    /\ state[r].isValidQuestion
    /\ Len(state[r].searchResults) > 0
    /\ log[r].invoked = <<"validate", "planning", "searching", "synthesizing">>

\* C2: once validate has set isValidQuestion to false the run has ended:
\* it returned at END having invoked validate only, with plan null,
\* searchResults empty and metadata.steps = ["validate"].
C2_RejectEndsRun ==
  \A r \in Runs :
    (Started(r) /\ state[r].isValidQuestion = FALSE)
      => /\ status[r] = "returned"
         /\ current[r] = END
         /\ log[r].invoked = <<"validate">>
         /\ log[r].requests = <<>>
         /\ state[r].plan = Null
         /\ state[r].searchResults = <<>>
         /\ Steps(r) = <<"validate">>

C2_Witness ==
  \E r \in Runs :
    /\ status[r] = "returned"
    /\ state[r].isValidQuestion = FALSE
    /\ log[r].routed = <<"reject">>

\* The results searchNode owes for a sequence of request outcomes: the
\* formatted results of the requests that came back with results, in order.
RECURSIVE Collected(_)
Collected(outcomes) ==
  IF outcomes = <<>> THEN <<>>
  ELSE LET o == outcomes[Len(outcomes)]
       IN Collected(SubSeq(outcomes, 1, Len(outcomes) - 1))
            \o (IF o.k = "results"
                  THEN [i \in 1..Len(o.results) |-> formatResult(o.results[i])]
                  ELSE <<>>)

\* The search loop of run r has had an outcome for every query of its plan.
SearchAnswered(r) ==
  /\ Occurs("searching", log[r].invoked)
  /\ Len(log[r].responses) > 0
  /\ Len(log[r].responses) = Len(QueriesOf(r))

\* C3: while the search loop runs, its accumulator holds exactly the
\* formatted results of the requests that succeeded so far, in query order;
\* once every query of the plan has had its outcome, whichever of them
\* failed, the node has returned, searchResults holds exactly those results
\* and the run has gone on to synthesizing.
C3_FailedQueriesIsolated ==
  \A r \in Runs :
    /\ (Running(r, "searching") /\ frame[r].queryIndex > 0)
         => frame[r].allResults = Collected(log[r].responses)
    /\ SearchAnswered(r)
         => /\ state[r].searchResults = Collected(log[r].responses)
            /\ current[r] \in {"synthesizing", END}
            /\ Occurs("search", Steps(r))
            /\ (status[r] = "rejected" => Occurs("synthesizing", log[r].invoked))

C3_Witness ==
  \E r \in Runs :
    /\ SearchAnswered(r)
    /\ \E i, j \in 1..Len(log[r].responses) :
         /\ log[r].responses[i].k = "throw"
         /\ log[r].responses[j].k = "results"
         /\ Len(log[r].responses[j].results) > 0
    /\ Len(state[r].searchResults) > 0
    /\ Occurs("synthesizing", log[r].invoked)

\* The state of run r holds a plan whose query list is not empty.
HasQueries(r) ==
  /\ state[r].plan # Null
  /\ state[r].plan.queries.t = "array"
  /\ Len(QueriesOf(r)) > 0

\* C4 as stated: with a plan whose query list is not empty, searchNode
\* never fails.
C4_Original ==
  \A r \in Runs :
    (HasQueries(r) /\ current[r] = "searching") => status[r] # "rejected"

\* C4 as amended: with a plan whose query list is not empty and
\* TAVILY_API_KEY set, searchNode never fails, whatever the outcome of its
\* requests: it issues the first request, and once every query has had its
\* outcome it has returned its update (possibly with no result).
C4_SearchCompletes ==
  \A r \in Runs :
    (TAVILY_API_KEY /\ HasQueries(r))
      => /\ current[r] = "searching" => status[r] # "rejected"
         /\ Occurs("searching", log[r].invoked)
              => /\ Len(log[r].requests) > 0
                 /\ SearchAnswered(r) => Occurs("search", Steps(r))

C4_Witness ==
  \E r \in Runs :
    /\ TAVILY_API_KEY
    /\ SearchAnswered(r)
    /\ \A i \in 1..Len(log[r].responses) : log[r].responses[i].k = "throw"
    /\ Occurs("search", Steps(r))
    /\ state[r].searchResults = <<>>

\* C5: a run whose synthesizing node ran on empty searchResults returned
\* normally without a model call from that node; its report is the fixed
\* no-results message, metadata.endTime is set, searchResults is still empty
\* and "synthesize" is the last of metadata.steps.
C5_EmptySynthesis ==
  \A r \in Runs :
    (Occurs("synthesizing", log[r].invoked) /\ state[r].searchResults = <<>>)
      => /\ status[r] = "returned"
         /\ current[r] = END
         /\ ~Occurs("synthesizing", log[r].llmCalls)
         /\ state[r].report = Box(NoResultsReport)
         /\ HasEndTime(r)
         /\ Steps(r) = <<"validate", "plan", "search", "synthesize">>

C5_Witness ==
  \E r \in Runs :
    /\ Occurs("synthesizing", log[r].invoked)
    /\ state[r].searchResults = <<>>
    /\ state[r].report = Box(NoResultsReport)

\* Run r was aborted by a throw of the node at current[r].
Aborted(r) == status[r] = "rejected"

\* Every node invoked so far has appended its step, but for the one that
\* is still running or that threw.
StepsFollowInvocations(r) ==
  Len(log[r].invoked) - Len(Steps(r)) =
    IF Aborted(r) \/ (Running(r, "searching") /\ frame[r].queryIndex > 0) THEN 1 ELSE 0

\* C7: the step in which a node throws leaves the run's state as it was
\* and ends the run as rejected with an error, at the node that threw and
\* that was invoked once; from then on nothing of the run changes (no node
\* is invoked, no request issued) until the caller starts another run, and
\* no run carries an error and goes on.
C7_FailureAborts ==
  [][\A r \in Runs :
       /\ (status[r] = "running" /\ Aborted(r)')
            => /\ state'[r] = state[r]
               /\ current'[r] = current[r]
               /\ current'[r] # END
               /\ error'[r] # ""
               /\ log'[r].invoked = Append(log[r].invoked, current[r])
               /\ ~Occurs(current[r], log[r].invoked)
       /\ Aborted(r)
            => \/ /\ state'[r] = state[r] /\ current'[r] = current[r]
                  /\ status'[r] = status[r] /\ error'[r] = error[r]
                  /\ log'[r] = log[r] /\ frame'[r] = frame[r]
               \/ /\ status'[r] = "running" /\ current'[r] = "validate"
                  /\ log'[r] = NoLog
       /\ (error'[r] # "") = Aborted(r)'
       /\ StepsFollowInvocations(r)'
    ]_vars

C7_Witness ==
  \E r \in Runs :
    /\ Aborted(r)
    /\ current[r] = "planning"
    /\ error[r] = "Failed to parse plan from LLM response"
    /\ Steps(r) = <<"validate">>
    /\ state[r].plan = Null

\* C8 as stated: a reply without a parseable JSON object of the expected
\* shape makes planNode fail, so a run that holds a plan, has "plan" among
\* its steps or has invoked searching holds a plan of the expected shape.
C8_Original ==
  \A r \in Runs :
    (\/ state[r].plan # Null
     \/ Occurs("plan", Steps(r))
     \/ Occurs("searching", log[r].invoked))
      => /\ state[r].plan # Null
         /\ ExpectedShape(state[r].plan)

\* C9: a run whose searching node was entered with plan null or with an
\* empty plan.queries was aborted at that node before any search request,
\* with searchResults as it was (empty), report null and no endTime.
C9_MissingPlanAborts ==
  \A r \in Runs :
    (/\ Occurs("searching", log[r].invoked)
     /\ (state[r].plan = Null \/ Len(QueriesOf(r)) = 0))
      => /\ Aborted(r)
         /\ current[r] = "searching"
         /\ error[r] = "No search queries in plan"
         /\ log[r].requests = <<>>
         /\ state[r].searchResults = <<>>
         /\ state[r].report = Null
         /\ ~HasEndTime(r)
         /\ ~Occurs("synthesizing", log[r].invoked)

C9_Witness ==
  \E r \in Runs :
    /\ Occurs("searching", log[r].invoked)
    /\ state[r].plan # Null
    /\ Len(QueriesOf(r)) = 0
    /\ Aborted(r)

\* C10: the label the router returned after validate is "reject" exactly
\* when isValidQuestion, as merged from validate's update, is false, and
\* "planning" otherwise; the run went to the target of that label, and
\* routing wrote nothing: right after validate the state is the initial
\* state with validate's update only.
C10_RouterLabel ==
  \A r \in Runs :
    /\ (log[r].routed # <<>>) = Occurs("validate", Steps(r))
    /\ log[r].routed # <<>>
         => /\ Len(log[r].routed) = 1
            /\ log[r].routed[1] =
                 (IF state[r].isValidQuestion = FALSE THEN "reject" ELSE "planning")
            /\ log[r].routed[1] = "reject" => current[r] = END
            /\ log[r].routed[1] = "planning"
                 => (current[r] = "planning" \/ Occurs("planning", log[r].invoked))
            /\ log[r].invoked = <<"validate">>
                 => /\ state[r].plan = Null
                    /\ state[r].searchResults = <<>>
                    /\ Steps(r) = <<"validate">>
                    /\ ~HasEndTime(r)
                    /\ state[r].question \in Questions

C10_Witness ==
  \E r \in Runs :
    /\ log[r].routed = <<"reject">>
    /\ state[r].isValidQuestion = FALSE
    /\ current[r] = END

\* The nodes in the order the edges chain them, and the step each appends.
nodeOrder == <<"validate", "planning", "searching", "synthesizing">>
stepName == [validate |-> "validate", planning |-> "plan",
             searching |-> "search", synthesizing |-> "synthesize"]

IsPrefix(a, b) == Len(a) <= Len(b) /\ a = SubSeq(b, 1, Len(a))

\* C11: the nodes a run has invoked are validate, planning, searching,
\* synthesizing in that order, each at most once; in the step that invokes
\* a node every node invoked before it has completed (its step is
\* recorded), and at no time is more than one invoked node of a run
\* without its completion.
C11_NodesOnceInOrder ==
  [][\A r \in Runs :
       /\ IsPrefix(log'[r].invoked, nodeOrder)
       /\ Len(log'[r].invoked) - Len(Steps(r)') \in {0, 1}
       /\ Len(log'[r].invoked) > Len(log[r].invoked)
            => /\ Len(log'[r].invoked) = Len(log[r].invoked) + 1
               /\ status[r] = "running"
               /\ log'[r].invoked[Len(log'[r].invoked)] = current[r]
               /\ \A j \in 1..Len(log[r].invoked) :
                    Occurs(stepName[log[r].invoked[j]], Steps(r))
    ]_vars

C11_Witness ==
  \E r \in Runs :
    /\ log[r].invoked = nodeOrder
    /\ Steps(r) = <<"validate", "plan", "search">>
    /\ Aborted(r)

\* The nodes of run r that completed, in completion order: the invoked
\* ones but for the one still running or that threw.
Completed(r) ==
  LET invoked == log[r].invoked
      open == Aborted(r) \/ (Running(r, "searching") /\ frame[r].queryIndex > 0)
  IN SubSeq(invoked, 1, Len(invoked) - (IF open THEN 1 ELSE 0))

\* The step by which the caller starts a run in slot r.
NewRun(r) == status[r] # "running" /\ status'[r] = "running"

\* C12: after every step metadata.steps is the sequence of the step names
\* of the nodes completed so far, in completion order, and within a run
\* the steps before the step are a prefix of the steps after it.
C12_StepsAppendOnly ==
  [][\A r \in Runs :
       /\ Steps(r)' = [i \in 1..Len(Completed(r)') |-> stepName[Completed(r)'[i]]]
       /\ ~NewRun(r) => IsPrefix(Steps(r), Steps(r)')
    ]_vars

C12_Witness ==
  \E r \in Runs :
    /\ Running(r, "searching")
    /\ frame[r].queryIndex > 0
    /\ Completed(r) = <<"validate", "planning">>
    /\ Steps(r) = <<"validate", "plan">>

\* C13: whatever partial updates were merged before, merging one more
\* leaves the searchResults held before as a prefix of the searchResults
\* held after: the list never shrinks and nothing in it is replaced.
C13_SearchResultsGrow ==
  replay.count > 0 =>
    /\ IsPrefix(replay.before.searchResults, state[1].searchResults)
    /\ "searchResults" \in DOMAIN replay.update
         => state[1].searchResults =
              replay.before.searchResults \o replay.update.searchResults

C13_Witness ==
  /\ replay.count = MaxUpdates
  /\ Len(replay.before.searchResults) > 0
  /\ "searchResults" \in DOMAIN replay.update
  /\ Len(state[1].searchResults) > Len(replay.before.searchResults)

\* C14 as stated: plan is null unless planning has completed, and report
\* is null unless synthesizing has completed.
C14_Original ==
  \A r \in Runs :
    /\ state[r].plan # Null => Occurs("planning", Completed(r))
    /\ state[r].report # Null => Occurs("synthesizing", Completed(r))

\* C14 as amended: plan is null unless planning has completed; report is
\* null unless synthesizing has completed or validate, the only node that
\* ran, rejected the question and wrote the rejection text.
C14_AbsentUntilWritten ==
  \A r \in Runs :
    /\ state[r].plan # Null => Occurs("planning", Completed(r))
    /\ state[r].report # Null
         => \/ Occurs("synthesizing", Completed(r))
            \/ /\ Completed(r) = <<"validate">>
               /\ state[r].isValidQuestion = FALSE
               /\ state[r].report = Box(RejectionReport)

C14_Witness ==
  \E r \in Runs :
    /\ Completed(r) = <<"validate">>
    /\ state[r].report = Box(RejectionReport)
    /\ state[r].plan = Null
    /\ status[r] = "returned"

\* C15: metadata.endTime appears only in the step whose update takes the
\* run to END, where the run returns; once there it keeps its value for
\* the rest of the run, and a run aborted by a throw has no endTime.
C15_EndTimeOnce ==
  [][\A r \in Runs :
       /\ (~HasEndTime(r) /\ HasEndTime(r)')
            => /\ status[r] = "running"
               /\ status'[r] = "returned"
               /\ current'[r] = END
               /\ Steps(r)' = Append(Steps(r), stepName[current[r]])
       /\ (HasEndTime(r) /\ ~NewRun(r))
            => /\ HasEndTime(r)'
               /\ state'[r].metadata.endTime = state[r].metadata.endTime
       /\ HasEndTime(r)' => status'[r] = "returned"
       /\ Aborted(r)' => ~HasEndTime(r)'
    ]_vars

C15_Witness ==
  \E r \in Runs :
    /\ status[r] = "returned"
    /\ HasEndTime(r)
    /\ state[r].metadata.endTime = MaxTime
    /\ state[r].metadata.startTime = 0
    /\ Completed(r) = nodeOrder

\* C16: in every state of a run, question is the question runResearch was
\* called with, and no step of the run changes it.
C16_QuestionImmutable ==
  [][\A r \in Runs :
       /\ Started(r)' => state'[r].question = input'[r].question
       /\ ~NewRun(r) => state'[r].question = state[r].question
    ]_vars

C16_Witness ==
  \E r \in Runs :
    /\ Completed(r) = nodeOrder
    /\ input[r].question \in Questions
    /\ state[r].question = input[r].question
    /\ state[r].report \in {Box(x) : x \in Reports}

\* C17: when an update carrying searchResults A and then one carrying
\* searchResults B are merged into a state s, the list held afterwards is
\* s.searchResults, then A, then B, which is also what the single update
\* carrying A followed by B gives when merged into s.
C17_AppendsCompose ==
  [][(/\ replay.count > 0
      /\ replay'.count = replay.count + 1
      /\ "searchResults" \in DOMAIN replay.update
      /\ "searchResults" \in DOMAIN replay'.update)
       => LET s == replay.before
              A == replay.update.searchResults
              B == replay'.update.searchResults
          IN /\ state'[1].searchResults = s.searchResults \o A \o B
             /\ state'[1].searchResults =
                  applyUpdate(s, [searchResults |-> A \o B]).searchResults
    ]_vars

C17_Witness ==
  /\ replay.count = MaxUpdates
  /\ "searchResults" \in DOMAIN replay.update
  /\ Len(replay.update.searchResults) > 0
  /\ Len(replay.before.searchResults) = 2
  /\ replay.before.searchResults[1] # replay.before.searchResults[2]
  /\ replay.update.searchResults[1] = replay.before.searchResults[1]
  /\ Len(state[1].searchResults) = 3

\* C18: after a partial update was merged, every field the update does
\* not name holds the value it held before (its reducer did not run, or
\* isValidQuestion would have gone back to true), and the update naming
\* no field leaves the whole state as it was.
C18_AbsentFieldsKept ==
  replay.count > 0 =>
    /\ \A f \in Fields \ DOMAIN replay.update : state[1][f] = replay.before[f]
    /\ DOMAIN replay.update = {} => state[1] = replay.before

C18_Witness ==
  /\ replay.count > 1
  /\ DOMAIN replay.update = {}
  /\ replay.before.isValidQuestion = FALSE
  /\ Len(replay.before.searchResults) > 0
  /\ state[1] = replay.before

\* All that belongs to run r.
RunVars(r) == <<state[r], current[r], status[r], error[r], frame[r], log[r], input[r]>>

\* C19: with runs interleaving on one graph, a step changes what belongs
\* to one run only, and after every step each run's state is what its own
\* input and its own collaborators' replies make it: its question is its
\* caller's, its steps are those of the nodes it completed, and its
\* searchResults are the results of its own search responses once its
\* search has completed, and empty before.
C19_RunsIsolated ==
  /\ [][\A r, o \in Runs :
          r < o => (RunVars(r)' = RunVars(r) \/ RunVars(o)' = RunVars(o))]_vars
  /\ [](\A r \in Runs :
          /\ Started(r) => state[r].question = input[r].question
          /\ Steps(r) = [i \in 1..Len(Completed(r)) |-> stepName[Completed(r)[i]]]
          /\ state[r].searchResults =
               (IF Occurs("searching", Completed(r))
                  THEN Collected(log[r].responses) ELSE <<>>)
          /\ \A i \in 1..Len(log[r].requests) : log[r].requests[i] = ownQuery(r))

C19_Witness ==
  \E r, o \in Runs :
    /\ Running(r, "synthesizing")
    /\ Len(state[r].searchResults) > 0
    /\ Running(o, "searching")
    /\ frame[o].queryIndex > 0
    /\ state[o].searchResults = <<>>
    /\ state[o].question # state[r].question

\* C20: a run that has started and completed no node yet holds the field
\* defaults with its caller's question: isValidQuestion true, plan null,
\* searchResults empty, report null, no step, no endTime; whatever runs
\* ended before it on the graph, with whatever state.
C20_FreshInitialState ==
  \A r \in Runs :
    Running(r, "validate")
      => state[r] = [question |-> input[r].question,
                     isValidQuestion |-> TRUE,
                     plan |-> Null,
                     searchResults |-> <<>>,
                     report |-> Null,
                     metadata |-> [steps |-> <<>>,
                                   startTime |-> state[r].metadata.startTime]]

C20_Witness ==
  \E r, o \in Runs :
    /\ status[o] = "returned"
    /\ Len(state[o].searchResults) > 0
    /\ state[o].report # Null
    /\ HasEndTime(o)
    /\ Running(r, "validate")
    /\ log[r] = NoLog
    /\ state[r].question # state[o].question
    /\ state[r].searchResults = <<>>

\* v is a value of the channel of field f.
IsValue(f, v) ==
  CASE f = "question" -> v \in Questions \cup {Undefined}
    [] f = "isValidQuestion" -> v \in BOOLEAN
    [] f = "plan" -> v = Null \/ v \in PlanValues
    [] f = "searchResults" ->
         \A i \in DOMAIN v : v[i] \in {formatResult(x) : x \in RawResults}
    [] f = "report" -> v = Null \/ v = Box(NoResultsReport)
    [] f = "metadata" ->
         /\ {"steps", "startTime"} \subseteq DOMAIN v
         /\ DOMAIN v \subseteq {"steps", "startTime", "endTime"}
         /\ \A i \in DOMAIN v.steps : \E n \in DOMAIN stepName : v.steps[i] = stepName[n]

C22_EndAfterStart ==
  /\ [](\A r \in Runs :
          Occurs("synthesizing", Completed(r))
            => /\ HasEndTime(r)
               /\ state[r].metadata.endTime >= state[r].metadata.startTime
               /\ state[r].metadata.endTime <= now)
  /\ [][\A r \in Runs :
          state'[r].metadata.startTime =
            (IF NewRun(r) THEN now ELSE state[r].metadata.startTime)]_vars

C22_Witness ==
  \E r \in Runs :
    /\ Occurs("synthesizing", Completed(r))
    /\ state[r].report \in {Box(x) : x \in Reports}
    /\ state[r].metadata.endTime > state[r].metadata.startTime
    /\ now = state[r].metadata.endTime

\* C23: as long as every awaited call settles, a run that is running
\* comes to its end, returned at END or rejected with an error, and no
\* run ever counts more than four node invocations.
C23_RunTerminates ==
  /\ \A r \in Runs :
       (status[r] = "running") ~> (status[r] \in {"returned", "rejected"})
  /\ [](\A r \in Runs :
          /\ Len(log[r].invoked) <= Len(nodeOrder)
          /\ status[r] = "returned" => current[r] = END
          /\ status[r] = "rejected" => error[r] # "")

C23_Witness ==
  \E r \in Runs :
    /\ status[r] = "returned"
    /\ Len(log[r].invoked) = Len(nodeOrder)
    /\ Len(log[r].llmCalls) = 3
    /\ Len(log[r].responses) = MaxQueries

\* C24: after an update carrying metadata was merged, steps are the steps
\* held before followed by the update's steps (none if it has no steps
\* key), and startTime and endTime each hold the update's value if the
\* update carries the key and are as before otherwise, an endTime set
\* before included.
C24_MetadataMerge ==
  (replay.count > 0 /\ "metadata" \in DOMAIN replay.update) =>
    LET c == replay.before.metadata
        u == replay.update.metadata
        m == state[1].metadata
    IN /\ m.steps = c.steps \o (IF "steps" \in DOMAIN u THEN u.steps ELSE <<>>)
       /\ \A k \in {"startTime", "endTime"} :
            IF k \in DOMAIN u
              THEN k \in DOMAIN m /\ m[k] = u[k]
              ELSE /\ (k \in DOMAIN m) = (k \in DOMAIN c)
                   /\ k \in DOMAIN c => m[k] = c[k]

C24_Witness ==
  /\ replay.count > 1
  /\ "metadata" \in DOMAIN replay.update
  /\ DOMAIN replay.update.metadata = {"steps"}
  /\ "endTime" \in DOMAIN replay.before.metadata
  /\ Len(replay.before.metadata.steps) > 0
  /\ "endTime" \in DOMAIN state[1].metadata
  /\ state[1].metadata.startTime = 0

\* C25: after an update carrying isValidQuestion was merged, the field is
\* the update's boolean, or true if the update's value is undefined,
\* whatever the field held before.
C25_VerdictLastWrite ==
  (replay.count > 0 /\ "isValidQuestion" \in DOMAIN replay.update) =>
    /\ replay.update.isValidQuestion = Null => state[1].isValidQuestion = TRUE
    /\ \A b \in BOOLEAN :
         replay.update.isValidQuestion = Box(b) => state[1].isValidQuestion = b

C25_Witness ==
  /\ replay.count > 1
  /\ "isValidQuestion" \in DOMAIN replay.update
  /\ replay.update.isValidQuestion = Null
  /\ replay.before.isValidQuestion = FALSE
  /\ state[1].isValidQuestion = TRUE

\* C26: the search requests of a run are the queries of its plan, one
\* each, in list order, as far as the loop has come; a request is out
\* only while the node awaits its response, at most one at a time, each
\* issued once all earlier ones were answered or failed; when the node
\* has completed, every query of the plan has had its one request.
C26_SequentialSearch ==
  \A r \in Runs :
    LET requests == log[r].requests
        outstanding == Len(log[r].requests) - Len(log[r].responses)
    IN /\ outstanding \in {0, 1}
       /\ outstanding = 1
            => /\ Running(r, "searching")
               /\ frame[r].queryIndex = Len(requests)
       /\ requests # <<>> => IsPrefix(requests, QueriesOf(r))
       /\ Occurs("searching", Completed(r))
            => /\ requests = QueriesOf(r)
               /\ outstanding = 0

C26_Witness ==
  \E r \in Runs :
    /\ Running(r, "searching")
    /\ Len(log[r].requests) = 2
    /\ Len(log[r].responses) = 1
    /\ log[r].requests[1] # log[r].requests[2]
    /\ log[r].requests = QueriesOf(r)

\* C27: the label routeAfterValidation returns on any state a run is in
\* is a key of the conditional edge mapping, "planning" leading to the
\* planning node and "reject" to END; every label routed had its target
\* and no run was rejected for a label without one.
C27_LabelsHaveEdges ==
  \A r \in Runs :
    /\ routeAfterValidation(state[r]) \in DOMAIN conditionalEdges
    /\ \A i \in DOMAIN log[r].routed :
         LET label == log[r].routed[i]
         IN /\ label \in DOMAIN conditionalEdges
            /\ conditionalEdges[label] = (IF label = "planning" THEN "planning" ELSE END)
    /\ current[r] # NoEdge
    /\ error[r] # "Branch condition returned unknown destination"

C27_Witness ==
  \E r \in Runs :
    /\ log[r].routed = <<"planning">>
    /\ Running(r, "planning")
    /\ state[r].isValidQuestion = TRUE
    /\ Steps(r) = <<"validate">>

\* The routing of chat run r: generate was invoked, and is about to run,
\* only right after gradeDocuments, with the verdict "generate" as the
\* last message; gradeDocuments only right after retrieve; the run
\* returned only from generate, or from generateQueryOrRespond on an AI
\* message without tool calls.
ChatRouting(r) ==
  LET invoked == log[r].invoked
      last == invoked[Len(invoked)]
  IN /\ \A i \in DOMAIN invoked :
          /\ invoked[i] = "generate" => (i > 1 /\ invoked[i - 1] = "gradeDocuments")
          /\ invoked[i] = "gradeDocuments" => (i > 1 /\ invoked[i - 1] = "retrieve")
     /\ Running(r, "generate")
          => /\ last = "gradeDocuments"
             /\ lastMessage(state[r]) = AIMessage("generate", 0)
     /\ Running(r, "gradeDocuments") => last = "retrieve"
     /\ status[r] = "returned"
          => /\ current[r] = END
             /\ \/ last = "generate"
                \/ /\ last = "generateQueryOrRespond"
                   /\ lastMessage(state[r]).type = "ai"
                   /\ lastMessage(state[r]).tool_calls = 0

\* C28 as stated: the routing holds and a run that keeps getting tool
\* calls and the verdict "rewrite" goes round without a bound: no run is
\* stopped for the number of its steps.
C28_Original ==
  \A r \in Runs :
    /\ ChatRouting(r)
    /\ error[r] # "GraphRecursionError"

\* C28 as amended: the routing holds; a run that keeps getting tool calls
\* and the verdict "rewrite" goes round generateQueryOrRespond, retrieve,
\* gradeDocuments, rewrite only until it has taken recursionLimit steps,
\* where it is rejected with GraphRecursionError; every run comes to an
\* end, returned or rejected, as long as every awaited call settles.
C28_ChatRouting ==
  /\ [](\A r \in Runs :
          /\ ChatRouting(r)
          /\ Len(log[r].invoked) <= recursionLimit
          /\ error[r] = "GraphRecursionError"
               => /\ status[r] = "rejected"
                  /\ Len(log[r].invoked) = recursionLimit
                  /\ current[r] # END
          /\ \A i \in DOMAIN log[r].invoked :
               log[r].invoked[i] = "rewrite"
                 => /\ i > 3
                    /\ SubSeq(log[r].invoked, i - 3, i - 1) =
                         <<"generateQueryOrRespond", "retrieve", "gradeDocuments">>)
  /\ \A r \in Runs :
       (status[r] = "running") ~> (status[r] \in {"returned", "rejected"})

C28_Witness ==
  \E r \in Runs :
    /\ error[r] = "GraphRecursionError"
    /\ Len(log[r].invoked) = recursionLimit
    /\ log[r].invoked[recursionLimit - 1] = "rewrite"
    /\ current[r] = "retrieve"

====
